---- MODULE Spec2Model ----
(***************************************************************************)
(* journald-syslog: the syslog parser (ParseSyslog) and the socket         *)
(* dispatcher (main, HandlePacket, HandleListener, IngestMessage) of       *)
(* src/journald-syslog.go.                                                 *)
(*                                                                         *)
(* Text is a sequence of one-character strings.  Index arguments of the    *)
(* text operators are 0-based, as in Go; the operators translate to the    *)
(* 1-based sequences of TLA+.                                              *)
(***************************************************************************)
EXTENDS Integers, Sequences, FiniteSets, TLC

(***************************************************************************)
(* Bounds of the model.                                                    *)
(***************************************************************************)
\* longest free tail (over TailChars) appended to a generated buffer
MaxTail == 2
\* units (datagrams plus connections) the dispatcher handles in one run
MaxUnits == 3

\* RFC5424: MUST receive 408-octet messages, SHOULD accept 2048-octet messages
PACKETSIZE == 2048

(***************************************************************************)
(* Go string primitives used by the parser.                                *)
(***************************************************************************)
DigitChars == <<"0", "1", "2", "3", "4", "5", "6", "7", "8", "9">>

IsDigitChar(c) == \E i \in 1..10 : DigitChars[i] = c

DigitVal(c) == (CHOOSE i \in 1..10 : DigitChars[i] = c) - 1

\* s[i]
At(s, i) == s[i + 1]

\* s[a:b], s[a:], s[:b]  (callers check the bounds Go checks)
Slice(s, a, b) == SubSeq(s, a + 1, b)
SliceFrom(s, a) == SubSeq(s, a + 1, Len(s))
SliceTo(s, b) == SubSeq(s, 1, b)

\* isDigit(s, i) of package time: false past the end
IsDigitAt(s, i) == i < Len(s) /\ IsDigitChar(At(s, i))

\* strings.IndexRune(s, c): index of the first c, or -1
IndexRune(s, c) ==
    IF \E i \in 1..Len(s) : s[i] = c
    THEN (CHOOSE i \in 1..Len(s) : s[i] = c /\ \A j \in 1..(i - 1) : s[j] # c) - 1
    ELSE -1

\* strings.SplitN(s, sep, n) for a one-character separator and n >= 1
RECURSIVE SplitN(_, _, _)
SplitN(s, c, n) ==
    IF n = 1 THEN <<s>>
    ELSE LET i == IndexRune(s, c) IN
         IF i < 0 THEN <<s>>
         ELSE <<SliceTo(s, i)>> \o SplitN(SliceFrom(s, i + 1), c, n - 1)

\* strings.Join(parts, sep) for a one-character separator
RECURSIVE Join(_, _)
Join(parts, c) ==
    IF Len(parts) = 0 THEN <<>>
    ELSE IF Len(parts) = 1 THEN parts[1]
    ELSE parts[1] \o <<c>> \o Join(Tail(parts), c)

\* value of a run of decimal digits
RECURSIVE DigitsVal(_)
DigitsVal(s) ==
    IF Len(s) = 0 THEN 0
    ELSE DigitsVal(SliceTo(s, Len(s) - 1)) * 10 + DigitVal(s[Len(s)])

AllDigits(s) == \A i \in 1..Len(s) : IsDigitChar(s[i])

\* strconv.Atoi, the fast path taken for 1 to 18 characters: an optional
\* sign, then one or more decimal digits
AtoiHasSign(s) == Len(s) > 0 /\ s[1] \in {"-", "+"}

AtoiDigits(s) == IF AtoiHasSign(s) THEN Tail(s) ELSE s

AtoiOk(s) == Len(s) > 0 /\ Len(AtoiDigits(s)) > 0 /\ AllDigits(AtoiDigits(s))

AtoiVal(s) ==
    IF s[1] = "-" THEN 0 - DigitsVal(AtoiDigits(s)) ELSE DigitsVal(AtoiDigits(s))

\* strconv.Itoa: a "-" and the digits of the magnitude for n < 0
RECURSIVE Itoa(_)
Itoa(n) ==
    IF n < 0 THEN <<"-">> \o Itoa(0 - n)
    ELSE IF n < 10 THEN <<DigitChars[n + 1]>>
    ELSE Itoa(n \div 10) \o <<DigitChars[(n % 10) + 1]>>

\* a shift by four bits in place of three
Shr3_ShiftFour(n) == IF n >= 0 THEN n \div 16 ELSE 0 - (((0 - n) + 15) \div 16)

\* pri >> 3 and pri & 7 on Go's two's-complement int: the arithmetic shift
\* rounds toward minus infinity and the mask is the non-negative residue
Shr3(n) == IF n >= 0 THEN n \div 8 ELSE 0 - (((0 - n) + 7) \div 8)

And7(n) == n - 8 * Shr3(n)

(***************************************************************************)
(* time.Parse for the three layouts the parser uses, and Time.String.      *)
(* A parse in progress is a record: ok, the unread value v, and the fields *)
(* read so far.  frac holds the digits of the fractional second; zmin is   *)
(* the zone offset in minutes and utc tells a "Z" (or absent) zone.        *)
(***************************************************************************)
NewTimeParse(value) ==
    [ok |-> TRUE, v |-> value, year |-> 0, month |-> 1, day |-> 1, hour |-> 0,
     min |-> 0, sec |-> 0, frac |-> <<>>, utc |-> TRUE, zmin |-> 0]

PFail(p) == [p EXCEPT !.ok = FALSE]

\* getnum(s, fixed): one or two digits, exactly two when fixed
GetnumOk(s, fixed) == IsDigitAt(s, 0) /\ (fixed => IsDigitAt(s, 1))

GetnumLen(s) == IF IsDigitAt(s, 1) THEN 2 ELSE 1

GetnumVal(s) == DigitsVal(SliceTo(s, GetnumLen(s)))

\* cutspace
RECURSIVE CutSpace(_)
CutSpace(s) == IF Len(s) > 0 /\ s[1] = " " THEN CutSpace(Tail(s)) ELSE s

\* skip(value, prefix) for a one-character prefix: a space of the layout
\* matches any run of spaces, also none at the end of the value
PSkip(p, c) ==
    IF ~p.ok THEN p
    ELSE IF c = " "
         THEN IF Len(p.v) > 0 /\ p.v[1] # " " THEN PFail(p)
              ELSE [p EXCEPT !.v = CutSpace(p.v)]
         ELSE IF Len(p.v) = 0 \/ p.v[1] # c THEN PFail(p)
              ELSE [p EXCEPT !.v = Tail(p.v)]

\* stdLongYear "2006": four digits
PYear(p) ==
    IF ~p.ok THEN p
    ELSE IF Len(p.v) < 4 \/ ~AllDigits(SliceTo(p.v, 4)) THEN PFail(p)
         ELSE [p EXCEPT !.year = DigitsVal(SliceTo(p.v, 4)), !.v = SliceFrom(p.v, 4)]

\* stdZeroMonth "01"
PZeroMonth(p) ==
    IF ~p.ok THEN p
    ELSE IF ~GetnumOk(p.v, TRUE) THEN PFail(p)
         ELSE IF GetnumVal(p.v) <= 0 \/ 12 < GetnumVal(p.v) THEN PFail(p)
              ELSE [p EXCEPT !.month = GetnumVal(p.v), !.v = SliceFrom(p.v, 2)]

\* stdZeroDay "02" (fixed) and stdUnderDay "_2" (an optional leading space,
\* then one or two digits); the range is checked when the parse ends
PDay(p, under) ==
    IF ~p.ok THEN p
    ELSE LET s == IF under /\ Len(p.v) > 0 /\ p.v[1] = " " THEN Tail(p.v) ELSE p.v IN
         IF ~GetnumOk(s, ~under) THEN PFail(p)
         ELSE [p EXCEPT !.day = GetnumVal(s), !.v = SliceFrom(s, GetnumLen(s))]

\* stdHour "15": one or two digits, below 24
PHour(p) ==
    IF ~p.ok THEN p
    ELSE IF ~GetnumOk(p.v, FALSE) THEN PFail(p)
         ELSE IF 24 <= GetnumVal(p.v) THEN PFail(p)
              ELSE [p EXCEPT !.hour = GetnumVal(p.v),
                             !.v = SliceFrom(p.v, GetnumLen(p.v))]

\* stdZeroMinute "04"
PZeroMinute(p) ==
    IF ~p.ok THEN p
    ELSE IF ~GetnumOk(p.v, TRUE) THEN PFail(p)
         ELSE IF 60 <= GetnumVal(p.v) THEN PFail(p)
              ELSE [p EXCEPT !.min = GetnumVal(p.v), !.v = SliceFrom(p.v, 2)]

\* number of digits at the front of s
RECURSIVE DigitRun(_)
DigitRun(s) == IF IsDigitAt(s, 0) THEN 1 + DigitRun(Tail(s)) ELSE 0

\* the fractional second, present or not in the layout: a comma or period
\* followed by digits, of which parseNanoseconds keeps the first nine
PFrac(p) ==
    IF ~p.ok THEN p
    ELSE IF Len(p.v) >= 2 /\ p.v[1] \in {".", ","} /\ IsDigitAt(p.v, 1)
         THEN LET n == DigitRun(Tail(p.v)) IN
              [p EXCEPT !.frac = Slice(p.v, 1, 1 + (IF n > 9 THEN 9 ELSE n)),
                        !.v = SliceFrom(p.v, 1 + n)]
         ELSE p

\* stdZeroSecond "05"; when the layout has no fraction element after it, a
\* fractional second in the value is read here
PZeroSecond(p, fracInLayout) ==
    IF ~p.ok THEN p
    ELSE IF ~GetnumOk(p.v, TRUE) THEN PFail(p)
         ELSE IF 60 <= GetnumVal(p.v) THEN PFail(p)
              ELSE LET q == [p EXCEPT !.sec = GetnumVal(p.v), !.v = SliceFrom(p.v, 2)]
                   IN  IF fracInLayout THEN q ELSE PFrac(q)

\* stdISO8601ColonTZ "Z07:00": "Z", or sign, two digits, colon, two digits;
\* an offset hour above 24 or minute above 60 is out of range
PZone(p) ==
    IF ~p.ok THEN p
    ELSE IF Len(p.v) >= 1 /\ p.v[1] = "Z" THEN [p EXCEPT !.v = Tail(p.v)]
    ELSE IF Len(p.v) < 6 THEN PFail(p)
    ELSE IF At(p.v, 3) # ":" THEN PFail(p)
    ELSE LET hh == Slice(p.v, 1, 3)
             mm == Slice(p.v, 4, 6)
         IN  IF ~GetnumOk(hh, TRUE) \/ ~GetnumOk(mm, TRUE) THEN PFail(p)
             ELSE IF GetnumVal(hh) > 24 \/ GetnumVal(mm) > 60 THEN PFail(p)
             ELSE IF At(p.v, 0) \notin {"+", "-"} THEN PFail(p)
             ELSE LET total == GetnumVal(hh) * 60 + GetnumVal(mm) IN
                  [p EXCEPT !.utc = FALSE,
                            !.zmin = IF At(p.v, 0) = "-" THEN 0 - total ELSE total,
                            !.v = SliceFrom(p.v, 6)]

UpperLetters ==
    <<"A", "B", "C", "D", "E", "F", "G", "H", "I", "J", "K", "L", "M",
      "N", "O", "P", "Q", "R", "S", "T", "U", "V", "W", "X", "Y", "Z">>

LowerLetters ==
    <<"a", "b", "c", "d", "e", "f", "g", "h", "i", "j", "k", "l", "m",
      "n", "o", "p", "q", "r", "s", "t", "u", "v", "w", "x", "y", "z">>

IsLetter(c) == \E i \in 1..26 : UpperLetters[i] = c \/ LowerLetters[i] = c

FoldCase(c) ==
    IF \E i \in 1..26 : UpperLetters[i] = c
    THEN LowerLetters[CHOOSE i \in 1..26 : UpperLetters[i] = c]
    ELSE c

\* match(s1, s2) of package time: equal up to the case of ASCII letters
MatchFold(s1, s2) ==
    /\ Len(s1) = Len(s2)
    /\ \A i \in 1..Len(s1) :
          s1[i] = s2[i] \/ (IsLetter(s1[i]) /\ FoldCase(s1[i]) = FoldCase(s2[i]))

shortMonthNames ==
    << <<"J", "a", "n">>, <<"F", "e", "b">>, <<"M", "a", "r">>, <<"A", "p", "r">>,
       <<"M", "a", "y">>, <<"J", "u", "n">>, <<"J", "u", "l">>, <<"A", "u", "g">>,
       <<"S", "e", "p">>, <<"O", "c", "t">>, <<"N", "o", "v">>, <<"D", "e", "c">> >>

\* stdMonth "Jan": lookup(shortMonthNames, value)
PMonthName(p) ==
    IF ~p.ok THEN p
    ELSE IF Len(p.v) >= 3
            /\ \E m \in 1..12 : MatchFold(SliceTo(p.v, 3), shortMonthNames[m])
         THEN [p EXCEPT !.month = CHOOSE m \in 1..12 :
                                      MatchFold(SliceTo(p.v, 3), shortMonthNames[m]),
                        !.v = SliceFrom(p.v, 3)]
         ELSE PFail(p)

isLeap(year) == year % 4 = 0 /\ (year % 100 # 0 \/ year % 400 = 0)

daysIn(m, year) ==
    IF m = 2 THEN (IF isLeap(year) THEN 29 ELSE 28)
    ELSE IF m \in {4, 6, 9, 11} THEN 30 ELSE 31

\* the end of Parse: no text may be left, and the day must exist
PEnd(p) ==
    IF ~p.ok THEN p
    ELSE IF Len(p.v) > 0 THEN PFail(p)
    ELSE IF p.day < 1 \/ p.day > daysIn(p.month, p.year) THEN PFail(p)
    ELSE p

\* time.Parse(time.RFC3339, value): "2006-01-02T15:04:05Z07:00"
TimeParseRFC3339(value) ==
    PEnd(PZone(PZeroSecond(PSkip(PZeroMinute(PSkip(PHour(PSkip(PDay(PSkip(
    PZeroMonth(PSkip(PYear(NewTimeParse(value)), "-")), "-"), FALSE), "T")),
    ":")), ":"), FALSE)))

\* time.Parse(time.RFC3339Nano, value): "2006-01-02T15:04:05.999999999Z07:00";
\* the stdFracSecond9 element reads the fraction, which may be absent
TimeParseRFC3339Nano(value) ==
    PEnd(PZone(PFrac(PZeroSecond(PSkip(PZeroMinute(PSkip(PHour(PSkip(PDay(PSkip(
    PZeroMonth(PSkip(PYear(NewTimeParse(value)), "-")), "-"), FALSE), "T")),
    ":")), ":"), TRUE))))

\* time.Parse(time.Stamp, value): "Jan _2 15:04:05", year 0, UTC
TimeParseStamp(value) ==
    PEnd(PZeroSecond(PSkip(PZeroMinute(PSkip(PHour(PSkip(PDay(PSkip(
    PMonthName(NewTimeParse(value)), " "), TRUE), " ")), ":")), ":"), FALSE))

\* n in decimal, zero-padded to width w
RECURSIVE PadInt(_, _)
PadInt(n, w) ==
    IF w <= 1 /\ n < 10 THEN <<DigitChars[n + 1]>>
    ELSE PadInt(n \div 10, w - 1) \o <<DigitChars[(n % 10) + 1]>>

RECURSIVE TrimZeros(_)
TrimZeros(s) ==
    IF Len(s) > 0 /\ s[Len(s)] = "0" THEN TrimZeros(SliceTo(s, Len(s) - 1)) ELSE s

\* Time.String: "2006-01-02 15:04:05.999999999 -0700 MST".  A zone without
\* a name prints its offset; offset zero is the host's zone UTC.
ZoneOffsetText(zmin) ==
    <<IF zmin < 0 THEN "-" ELSE "+">>
    \o PadInt((IF zmin < 0 THEN 0 - zmin ELSE zmin) \div 60, 2)
    \o PadInt((IF zmin < 0 THEN 0 - zmin ELSE zmin) % 60, 2)

TimeString(t) ==
    PadInt(t.year, 4) \o <<"-">> \o PadInt(t.month, 2) \o <<"-">> \o PadInt(t.day, 2)
    \o <<" ">> \o PadInt(t.hour, 2) \o <<":">> \o PadInt(t.min, 2)
    \o <<":">> \o PadInt(t.sec, 2)
    \o (IF Len(TrimZeros(t.frac)) > 0 THEN <<".">> \o TrimZeros(t.frac) ELSE <<>>)
    \o <<" ">> \o ZoneOffsetText(t.zmin) \o <<" ">>
    \o (IF t.utc \/ t.zmin = 0 THEN <<"U", "T", "C">> ELSE ZoneOffsetText(t.zmin))

(***************************************************************************)
(* ParseSyslog.  The function is a chain of stages; a stage maps the       *)
(* local state (msg, rest and the position pc) to the state after it.      *)
(* pc "panic" is a Go run-time panic: an index or a slice bound out of     *)
(* range.                                                                  *)
(***************************************************************************)
\* time.Now().UTC(): the reading of the wall clock when the message arrives
Now ==
    [ok |-> TRUE, v |-> <<>>, year |-> 2026, month |-> 1, day |-> 2, hour |-> 3,
     min |-> 4, sec |-> 5, frac |-> <<"6">>, utc |-> TRUE, zmin |-> 0]

\* lines 40-49: the defaults a relay fills in, and rest := buf[:]
NewSyslogMessage(buf, source) ==
    [pc |-> "PRI",
     rest |-> buf,
     msg |-> [Version |-> 0, Facility |-> 0, Severity |-> 5,
              Timestamp |-> TimeString(Now), Hostname |-> source, Tag |-> <<>>,
              StructuredData |-> <<>>, Message |-> <<>>, Source |-> source]]

Panic(s) == [s EXCEPT !.pc = "panic"]

\* lines 52-57: PRI
StagePRI(s) ==
    IF Len(s.rest) = 0 THEN Panic(s)
    ELSE IF At(s.rest, 0) # "<" THEN [s EXCEPT !.pc = "RETURN"]
    ELSE LET priEnd == IndexRune(s.rest, ">") IN
         IF ~(priEnd > 1 /\ priEnd < 5) THEN [s EXCEPT !.pc = "RETURN"]
         ELSE IF ~AtoiOk(Slice(s.rest, 1, priEnd)) THEN [s EXCEPT !.pc = "RETURN"]
         ELSE LET pri == AtoiVal(Slice(s.rest, 1, priEnd)) IN
              [s EXCEPT !.msg.Facility = Shr3(pri),
                        !.msg.Severity = And7(pri),
                        !.rest = SliceFrom(s.rest, priEnd + 1),
                        !.pc = "VERSION"]

\* lines 60-62 and 93: VERSION
StageVERSION(s) ==
    IF Len(s.rest) = 0 THEN Panic(s)
    ELSE IF At(s.rest, 0) = "1"
         THEN IF Len(s.rest) < 2 THEN Panic(s)
              ELSE [s EXCEPT !.msg.Version = 1,
                             !.rest = SliceFrom(s.rest, 2),
                             !.pc = "TIMESTAMP"]
         ELSE [s EXCEPT !.pc = "STAMP"]

\* lines 67-70: RFC3339Nano first, RFC3339 when it fails
ParseStructuredTime(token) ==
    IF TimeParseRFC3339Nano(token).ok THEN TimeParseRFC3339Nano(token)
    ELSE TimeParseRFC3339(token)

\* a TIMESTAMP stage that drops a token it cannot parse
StageTIMESTAMP_DropsToken(s) ==
    LET tsEnd == IndexRune(s.rest, " ") IN
    IF tsEnd < 0 THEN [s EXCEPT !.pc = "RETURN"]
    ELSE LET ts == ParseStructuredTime(SliceTo(s.rest, tsEnd)) IN
         IF ~ts.ok THEN [s EXCEPT !.rest = SliceFrom(s.rest, tsEnd + 1), !.pc = "RETURN"]
         ELSE [s EXCEPT !.msg.Timestamp = TimeString(ts),
                        !.rest = SliceFrom(s.rest, tsEnd + 1),
                        !.pc = "FIELDS"]

\* lines 65-73: TIMESTAMP of the structured grammar
StageTIMESTAMP(s) ==
    LET tsEnd == IndexRune(s.rest, " ") IN
    IF tsEnd < 0 THEN [s EXCEPT !.pc = "RETURN"]
    ELSE LET ts == ParseStructuredTime(SliceTo(s.rest, tsEnd)) IN
         IF ~ts.ok THEN [s EXCEPT !.pc = "RETURN"]
         ELSE [s EXCEPT !.msg.Timestamp = TimeString(ts),
                        !.rest = SliceFrom(s.rest, tsEnd + 1),
                        !.pc = "FIELDS"]

\* StageFIELDS with a nil HOSTNAME "-" replaced by the source address
StageFIELDS_NilHostIsSource(s) ==
    LET parts == SplitN(s.rest, " ", 5) IN
    IF Len(parts) = 5
    THEN [s EXCEPT !.msg.Hostname = IF parts[1] = <<"-">> THEN s.msg.Source
                                    ELSE parts[1],
                   !.msg.Tag = Join(SubSeq(parts, 2, 4), " "),
                   !.rest = parts[5],
                   !.pc = "SD"]
    ELSE [s EXCEPT !.pc = "SD"]

\* lines 76-80: HOSTNAME, APP-NAME/PROCID/MSGID (TAG)
StageFIELDS(s) ==
    LET parts == SplitN(s.rest, " ", 5) IN
    IF Len(parts) = 5
    THEN [s EXCEPT !.msg.Hostname = parts[1],
                   !.msg.Tag = Join(SubSeq(parts, 2, 4), " "),
                   !.rest = parts[5],
                   !.pc = "SD"]
    ELSE [s EXCEPT !.pc = "SD"]

\* StageSD with the skip after the closing bracket off by one: only the
\* bracket is skipped, not the separator after it
StageSD_SkipBracketOnly(s) ==
    IF Len(s.rest) = 0 THEN Panic(s)
    ELSE IF At(s.rest, 0) # "[" THEN [s EXCEPT !.pc = "RETURN"]
    ELSE LET sdEnd == IndexRune(s.rest, "]") IN
         IF ~(sdEnd > 1) THEN [s EXCEPT !.pc = "RETURN"]
         ELSE [s EXCEPT !.msg.StructuredData = SliceTo(s.rest, sdEnd),
                        !.rest = SliceFrom(s.rest, sdEnd + 1),
                        !.pc = "RETURN"]

\* lines 85-90: structured data
StageSD(s) ==
    IF Len(s.rest) = 0 THEN Panic(s)
    ELSE IF At(s.rest, 0) # "[" THEN [s EXCEPT !.pc = "RETURN"]
    ELSE LET sdEnd == IndexRune(s.rest, "]") IN
         IF ~(sdEnd > 1) THEN [s EXCEPT !.pc = "RETURN"]
         ELSE IF sdEnd + 2 > Len(s.rest) THEN Panic(s)
         ELSE [s EXCEPT !.msg.StructuredData = SliceTo(s.rest, sdEnd),
                        !.rest = SliceFrom(s.rest, sdEnd + 2),
                        !.pc = "RETURN"]

\* lines 95-97: TIMESTAMP of the legacy grammar
StageSTAMP(s) ==
    IF Len(s.rest) < 15 THEN Panic(s)
    ELSE LET ts == TimeParseStamp(SliceTo(s.rest, 15)) IN
         IF ~ts.ok THEN [s EXCEPT !.pc = "RETURN"]
         ELSE IF Len(s.rest) < 16 THEN Panic(s)
         ELSE [s EXCEPT !.msg.Timestamp = TimeString(ts),
                        !.rest = SliceFrom(s.rest, 16),
                        !.pc = "HOSTTAG"]

\* lines 100-104: HOSTNAME, TAG
StageHOSTTAG(s) ==
    LET parts == SplitN(s.rest, " ", 3) IN
    IF Len(parts) = 3
    THEN [s EXCEPT !.msg.Hostname = parts[1],
                   !.msg.Tag = parts[2],
                   !.rest = parts[3],
                   !.pc = "RETURN"]
    ELSE [s EXCEPT !.pc = "RETURN"]

\* lines 110-111
StageRETURN(s) == [s EXCEPT !.msg.Message = s.rest, !.pc = "done"]

ParseEnded(s) == s.pc \in {"done", "panic"}

StageStep(s) ==
    CASE s.pc = "PRI" -> StagePRI(s)
      [] s.pc = "VERSION" -> StageVERSION(s)
      [] s.pc = "TIMESTAMP" -> StageTIMESTAMP(s)
      [] s.pc = "FIELDS" -> StageFIELDS(s)
      [] s.pc = "SD" -> StageSD(s)
      [] s.pc = "STAMP" -> StageSTAMP(s)
      [] s.pc = "HOSTTAG" -> StageHOSTTAG(s)
      [] s.pc = "RETURN" -> StageRETURN(s)
      [] OTHER -> s

RECURSIVE RunStages(_)
RunStages(s) == IF ParseEnded(s) THEN s ELSE RunStages(StageStep(s))

\* ParseSyslog(buf, source): pc "done" with the message, or pc "panic"
ParseSyslog(buf, source) == RunStages(NewSyslogMessage(buf, source))

(***************************************************************************)
(* The buffers the parser is run on.  A buffer is put together from a PRI  *)
(* part, a version marker, a timestamp, header fields, a structured-data   *)
(* element and a free tail; every part also comes malformed or missing.    *)
(***************************************************************************)
\* largest PRI value written between the brackets
MaxPri == 999

TailChars == {" ", "a", "]"}

RECURSIVE TextsUpTo(_, _)
TextsUpTo(chars, n) ==
    IF n = 0 THEN {<<>>}
    ELSE LET shorter == TextsUpTo(chars, n - 1) IN
         shorter \cup {<<c>> \o t : c \in chars, t \in {u \in shorter : Len(u) = n - 1}}

Tails == TextsUpTo(TailChars, MaxTail)

StampGood == <<"D", "e", "c", " ", "1", "5", " ", "1", "1", ":", "5", "5", ":", "0", "2">>
StampPadded == <<"D", "e", "c", " ", " ", "5", " ", "1", "1", ":", "5", "5", ":", "0", "2">>
StampBad == <<"D", "e", "c", " ", "3", "5", " ", "1", "1", ":", "5", "5", ":", "0", "2">>
TimeNano == <<"2", "0", "1", "5", "-", "1", "2", "-", "1", "5", "T", "1", "1", ":", "5", "4", ":", "4", "1", ".", "5", "-", "0", "8", ":", "0", "0">>
TimeSecond == <<"2", "0", "1", "5", "-", "1", "2", "-", "1", "5", "T", "1", "1", ":", "5", "4", ":", "4", "1", "Z">>
TimeBad == <<"2", "0", "1", "5", "-", "0", "2", "-", "3", "0", "T", "1", "1", ":", "5", "4", ":", "4", "1", "Z">>
Pri13 == <<"<", "1", "3", ">">>
SourceAddr == <<"1", "2", "7", ".", "0", ".", "0", ".", "1">>

PriBodies ==
    {Itoa(p) : p \in 0..MaxPri}
    \cup {<<>>, <<"-", "5">>, <<"+", "5">>, <<"-">>, <<"a">>, <<"1", "a">>,
          <<"0", "0", "7">>, <<"1", "2", "3", "4">>, <<"1", ">">>}

PriHeads ==
    {<<"<">> \o b \o <<">">> : b \in PriBodies}
    \cup {<<>>, <<"<">>, <<"<", "1", "3">>, <<"a">>, <<"1", "3", ">">>,
          <<" ">> \o Pri13}

PriTails ==
    {<<>>, <<"1">>, <<"1", "a">>, <<"1", " ", "-", " ", "m">>, <<"a">>,
     StampBad, StampGood \o <<" ", "m">>}

VersionMarks == {<<"1", " ">>, <<"1", "x">>, <<"1", "1">>}

StructuredTimes ==
    {TimeNano \o <<" ">>, TimeSecond \o <<" ">>, TimeBad \o <<" ">>,
     <<"-", " ">>, TimeSecond, <<>>}

StructuredFields ==
    {<<>>, <<"h", " ">>, <<"h", " ", "a", " ", "p", " ">>,
     <<"h", " ", "a", " ", "p", " ", "m">>,
     <<"h", " ", "a", " ", "p", " ", "m", " ">>,
     <<"-", " ", "a", " ", "-", " ", "-", " ">>,
     <<"h", " ", " ", "p", " ", "m", " ">>}

StructuredData ==
    {<<>>, <<"-">>, <<"[", "x", "]">>, <<"[", "x">>, <<"[", "]">>, <<"[">>}

LegacyTimes ==
    {StampGood \o <<" ">>, StampGood, StampPadded \o <<" ">>, StampBad \o <<" ">>,
     <<"D", "e", "c">>}

LegacyFields == {<<>>, <<"h", " ">>, <<"h", " ", "t", ":", " ">>, <<"h", " ", " ">>}

Buffers ==
    {h \o t : h \in PriHeads, t \in PriTails}
    \cup {Pri13 \o v \o ts \o f \o sd \o t :
             v \in VersionMarks, ts \in StructuredTimes, f \in StructuredFields,
             sd \in StructuredData, t \in Tails}
    \cup {Pri13 \o ts \o f \o t : ts \in LegacyTimes, f \in LegacyFields, t \in Tails}

(***************************************************************************)
(* State.                                                                  *)
(*   pbuf, psource, pstate  one call of ParseSyslog: its arguments and its *)
(*                          local state (msg, rest, position)              *)
(*   proc         the process: "starting" (main before wg.Wait),           *)
(*                "serving" (main in wg.Wait), "fatal" (log.Fatal),        *)
(*                "exited" (main returned), "crashed" (a goroutine panicked)*)
(*   packetConns, listeners  the sockets the activation layer supplied     *)
(*   wg           the WaitGroup counter                                    *)
(*   loops        the sockets whose HandlePacket / HandleListener          *)
(*                goroutine was started                                    *)
(*   units        one record per datagram received, connection accepted or *)
(*                failed receive / accept, in the order the loops saw them *)
(***************************************************************************)
VARIABLES pbuf, psource, pstate, proc, packetConns, listeners, wg, loops, units

pvars == <<pbuf, psource, pstate>>

dvars == <<proc, packetConns, listeners, wg, loops, units>>

vars == <<pbuf, psource, pstate, proc, packetConns, listeners, wg, loops, units>>

NoParse == [NewSyslogMessage(<<>>, SourceAddr) EXCEPT !.pc = "idle"]

(***************************************************************************)
(* The parser on its own: one buffer, one stage per step.                  *)
(***************************************************************************)
ParseInit ==
    /\ pbuf \in Buffers
    /\ psource = SourceAddr
    /\ pstate = NewSyslogMessage(pbuf, psource)
    /\ proc = "starting"
    /\ packetConns = {}
    /\ listeners = {}
    /\ wg = 0
    /\ loops = {}
    /\ units = <<>>

DoPRI ==
    /\ pstate.pc = "PRI"
    /\ pstate' = StagePRI(pstate)
    /\ UNCHANGED <<pbuf, psource, dvars>>

DoVERSION ==
    /\ pstate.pc = "VERSION"
    /\ pstate' = StageVERSION(pstate)
    /\ UNCHANGED <<pbuf, psource, dvars>>

DoTIMESTAMP ==
    /\ pstate.pc = "TIMESTAMP"
    /\ pstate' = StageTIMESTAMP(pstate)
    /\ UNCHANGED <<pbuf, psource, dvars>>

DoFIELDS ==
    /\ pstate.pc = "FIELDS"
    /\ pstate' = StageFIELDS(pstate)
    /\ UNCHANGED <<pbuf, psource, dvars>>

DoSD ==
    /\ pstate.pc = "SD"
    /\ pstate' = StageSD(pstate)
    /\ UNCHANGED <<pbuf, psource, dvars>>

DoSTAMP ==
    /\ pstate.pc = "STAMP"
    /\ pstate' = StageSTAMP(pstate)
    /\ UNCHANGED <<pbuf, psource, dvars>>

DoHOSTTAG ==
    /\ pstate.pc = "HOSTTAG"
    /\ pstate' = StageHOSTTAG(pstate)
    /\ UNCHANGED <<pbuf, psource, dvars>>

DoRETURN ==
    /\ pstate.pc = "RETURN"
    /\ pstate' = StageRETURN(pstate)
    /\ UNCHANGED <<pbuf, psource, dvars>>

ParseNext ==
    \/ DoPRI
    \/ DoVERSION
    \/ DoTIMESTAMP
    \/ DoFIELDS
    \/ DoSD
    \/ DoSTAMP
    \/ DoHOSTTAG
    \/ DoRETURN

ParseSpec == ParseInit /\ [][ParseNext]_vars

(***************************************************************************)
(* The dispatcher: main, the receive and accept loops, and one task per    *)
(* datagram or connection.                                                 *)
(***************************************************************************)
\* what activation.PacketConns and activation.Listeners can hand over
PacketSockets == {[id |-> "p1", type |-> "UDPConn"], [id |-> "p2", type |-> "UnixConn"]}

ListenSockets ==
    {[id |-> "l1", type |-> "TCPListener"], [id |-> "l2", type |-> "UnixListener"]}

\* what a peer can send in one datagram, and in the first read of a stream
DatagramPayloads == {<<>>, Pri13, <<"h", "i">>}

\* one octet more than a read buffer holds
LongPayload == [i \in 1..(PACKETSIZE + 1) |-> "a"]

StreamPayloads == {Pri13, LongPayload}

\* a read that hands over all the peer sent
BoundedRead_Unbounded(data) == data

\* buf[:count] of a read into make([]byte, PACKETSIZE)
BoundedRead(data) ==
    IF Len(data) > PACKETSIZE THEN SliceTo(data, PACKETSIZE) ELSE data

NewUnit(sock, kind, st) ==
    [sock |-> sock, kind |-> kind, st |-> st, buf |-> <<>>, reads |-> 0,
     open |-> FALSE, parses |-> 0, sends |-> 0, delivered |-> 0, logged |-> 0,
     msg |-> NoParse.msg]

Init ==
    /\ pbuf = <<>>
    /\ psource = SourceAddr
    /\ pstate = NoParse
    /\ proc = "starting"
    /\ packetConns \in SUBSET PacketSockets
    /\ listeners \in SUBSET ListenSockets
    /\ wg = 0
    /\ loops = {}
    /\ units = <<>>

\* the sockets main starts a loop for (lines 197-214)
ServedSockets ==
    {s.id : s \in {c \in packetConns : c.type = "UDPConn"}}
    \cup {s.id : s \in {l \in listeners : l.type = "TCPListener"}}

\* a main without the check of lines 192-194
Main_NoSocketCheck ==
    /\ proc = "starting"
    /\ proc' = "serving"
    /\ loops' = ServedSockets
    /\ wg' = Cardinality(ServedSockets)
    /\ UNCHANGED <<pvars, packetConns, listeners, units>>

\* main, lines 190-215, up to wg.Wait()
Main ==
    /\ proc = "starting"
    /\ IF Cardinality(packetConns) = 0 /\ Cardinality(listeners) = 0
       THEN /\ proc' = "fatal"
            /\ UNCHANGED <<wg, loops>>
       ELSE /\ proc' = "serving"
            /\ loops' = ServedSockets
            /\ wg' = Cardinality(ServedSockets)
    /\ UNCHANGED <<pvars, packetConns, listeners, units>>

\* main, lines 215-216: wg.Wait() returns when the counter is zero
MainReturn ==
    /\ proc = "serving"
    /\ wg = 0
    /\ proc' = "exited"
    /\ UNCHANGED <<pvars, packetConns, listeners, wg, loops, units>>

UdpLoops == {s \in loops : \E c \in packetConns : c.id = s /\ c.type = "UDPConn"}

TcpLoops == {s \in loops : \E l \in listeners : l.id = s /\ l.type = "TCPListener"}

\* a receive loop that calls IngestMessage itself, without "go"
ReceiveDatagram_InLine ==
    /\ proc = "serving"
    /\ Len(units) < MaxUnits
    /\ \E s \in UdpLoops, data \in DatagramPayloads :
          /\ \A i \in 1..Len(units) :
                units[i].sock = s => units[i].st \in {"done", "failed"}
          /\ units' = Append(units, [NewUnit(s, "datagram", "ingest") EXCEPT
                                        !.buf = BoundedRead(data), !.reads = 1])
    /\ UNCHANGED <<pvars, proc, packetConns, listeners, wg, loops>>

\* HandlePacket, lines 180-184: a datagram arrives and its task is started
ReceiveDatagram ==
    /\ proc = "serving"
    /\ Len(units) < MaxUnits
    /\ \E s \in UdpLoops, data \in DatagramPayloads :
          units' = Append(units, [NewUnit(s, "datagram", "ingest") EXCEPT
                                     !.buf = BoundedRead(data), !.reads = 1])
    /\ UNCHANGED <<pvars, proc, packetConns, listeners, wg, loops>>

\* a receive loop that gives up at the first error
ReceiveError_StopsLoop ==
    /\ proc = "serving"
    /\ Len(units) < MaxUnits
    /\ \E s \in UdpLoops :
          /\ units' = Append(units, [NewUnit(s, "datagram", "failed") EXCEPT
                                        !.reads = 1, !.logged = 1])
          /\ loops' = loops \ {s}
          /\ wg' = wg - 1
    /\ UNCHANGED <<pvars, proc, packetConns, listeners>>

\* HandlePacket, lines 181-182: ReadFromUDP fails
ReceiveError ==
    /\ proc = "serving"
    /\ Len(units) < MaxUnits
    /\ \E s \in UdpLoops :
          units' = Append(units, [NewUnit(s, "datagram", "failed") EXCEPT
                                     !.reads = 1, !.logged = 1])
    /\ UNCHANGED <<pvars, proc, packetConns, listeners, wg, loops>>

\* HandleListener, lines 158-163: a connection is accepted, its task started
Accept ==
    /\ proc = "serving"
    /\ Len(units) < MaxUnits
    /\ \E s \in TcpLoops :
          units' = Append(units, [NewUnit(s, "stream", "read") EXCEPT !.open = TRUE])
    /\ UNCHANGED <<pvars, proc, packetConns, listeners, wg, loops>>

\* HandleListener, lines 158-161: Accept fails
AcceptError ==
    /\ proc = "serving"
    /\ Len(units) < MaxUnits
    /\ \E s \in TcpLoops :
          units' = Append(units, [NewUnit(s, "stream", "failed") EXCEPT !.logged = 1])
    /\ UNCHANGED <<pvars, proc, packetConns, listeners, wg, loops>>

\* the connection's task, lines 165-166 and 169: conn.Read returns data
ConnRead ==
    /\ proc = "serving"
    /\ \E i \in 1..Len(units), data \in StreamPayloads :
          /\ units[i].st = "read"
          /\ units' = [units EXCEPT ![i].buf = BoundedRead(data),
                                    ![i].reads = @ + 1,
                                    ![i].st = "ingest"]
    /\ UNCHANGED <<pvars, proc, packetConns, listeners, wg, loops>>

\* the connection's task, lines 164-167: conn.Read fails; the deferred Close
ConnReadError ==
    /\ proc = "serving"
    /\ \E i \in 1..Len(units) :
          /\ units[i].st = "read"
          /\ units' = [units EXCEPT ![i].reads = @ + 1,
                                    ![i].logged = @ + 1,
                                    ![i].open = FALSE,
                                    ![i].st = "done"]
    /\ UNCHANGED <<pvars, proc, packetConns, listeners, wg, loops>>

\* IngestMessage, lines 117-147: parse, build the fields, call journal.Send.
\* A panic of ParseSyslog is not recovered anywhere: it ends the process.
IngestMessage ==
    /\ proc = "serving"
    /\ \E i \in 1..Len(units) :
          /\ units[i].st = "ingest"
          /\ LET r == ParseSyslog(units[i].buf, SourceAddr) IN
             IF r.pc = "panic"
             THEN /\ proc' = "crashed"
                  /\ units' = [units EXCEPT ![i].parses = @ + 1,
                                            ![i].open = FALSE,
                                            ![i].st = "panicked"]
             ELSE /\ proc' = proc
                  /\ units' = [units EXCEPT ![i].parses = @ + 1,
                                            ![i].msg = r.msg,
                                            ![i].sends = @ + 1,
                                            ![i].st = "send"]
    /\ UNCHANGED <<pvars, packetConns, listeners, wg, loops>>

\* IngestMessage, lines 147-151: journal.Send returns; then the task ends
\* (for a connection, with the deferred Close of line 164)
SendReturn ==
    /\ proc = "serving"
    /\ \E i \in 1..Len(units), failed \in BOOLEAN :
          /\ units[i].st = "send"
          /\ units' = [units EXCEPT
                          ![i].delivered = IF failed THEN @ ELSE @ + 1,
                          ![i].logged = IF failed THEN @ + 1 ELSE @,
                          ![i].open = FALSE,
                          ![i].st = "done"]
    /\ UNCHANGED <<pvars, proc, packetConns, listeners, wg, loops>>

Next ==
    \/ Main
    \/ MainReturn
    \/ ReceiveDatagram
    \/ ReceiveError
    \/ Accept
    \/ AcceptError
    \/ ConnRead
    \/ ConnReadError
    \/ IngestMessage
    \/ SendReturn

Spec == Init /\ [][Next]_vars

(***************************************************************************)
(* Vocabulary of the properties: the parts of a buffer as the message      *)
(* grammar names them.                                                     *)
(***************************************************************************)
HasPrefix(t, prefix) == Len(t) >= Len(prefix) /\ SubSeq(t, 1, Len(prefix)) = prefix

\* the buffer opens with "<", 1 to 3 characters that convert to an integer, ">"
PriAccepted(buf) ==
    /\ Len(buf) > 0
    /\ buf[1] = "<"
    /\ IndexRune(buf, ">") \in 2..4
    /\ AtoiOk(Slice(buf, 1, IndexRune(buf, ">")))

PriValue(buf) == AtoiVal(Slice(buf, 1, IndexRune(buf, ">")))

AfterPri(buf) == SliceFrom(buf, IndexRune(buf, ">") + 1)

\* the structured grammar's marker: "1" and a space right after the PRI
IsStructured(buf) ==
    /\ PriAccepted(buf)
    /\ Len(AfterPri(buf)) >= 2
    /\ AfterPri(buf)[1] = "1"
    /\ AfterPri(buf)[2] = " "

AfterVersion(buf) == SliceFrom(AfterPri(buf), 2)

HasTimeToken(buf) == IsStructured(buf) /\ IndexRune(AfterVersion(buf), " ") >= 0

TimeToken(buf) == SliceTo(AfterVersion(buf), IndexRune(AfterVersion(buf), " "))

TimeTokenParses(buf) == HasTimeToken(buf) /\ ParseStructuredTime(TimeToken(buf)).ok

AfterTime(buf) == SliceFrom(AfterVersion(buf), IndexRune(AfterVersion(buf), " ") + 1)

SpacesOf(t) == {i \in 1..Len(t) : t[i] = " "}

\* position (1-based) of the k-th space of t
KthSpace(t, k) ==
    CHOOSE i \in SpacesOf(t) : Cardinality({j \in SpacesOf(t) : j < i}) = k - 1

\* the text has no structured-data element the parser takes: it is empty,
\* does not begin with "[", has no "]", or has its first "]" at index <= 1
NoSdElement(t) == Len(t) = 0 \/ t[1] # "[" \/ IndexRune(t, "]") <= 1

\* the text begins with "[", its first "]" is at index > 1 and a character
\* follows it
SdElementFollowed(t) ==
    /\ Len(t) > 0
    /\ t[1] = "["
    /\ IndexRune(t, "]") > 1
    /\ IndexRune(t, "]") + 1 < Len(t)

Returned == pstate.pc = "done"

Panicked == pstate.pc = "panic"

(***************************************************************************)
(* C1: ParseSyslog never raises an error and always returns a message,     *)
(* for every buffer and source.                                            *)
(* Fails: an empty buffer panics at rest[0] of line 52.                    *)
(***************************************************************************)
C1_ParseNeverPanics == ~Panicked

(***************************************************************************)
(* C2: malformed input never crashes the process: after any datagrams and  *)
(* connections, every receive and accept loop that was started is still    *)
(* running (and so in-flight units of other tasks are still processed).    *)
(* Fails: a panic of ParseSyslog in a task ends the whole process.         *)
(***************************************************************************)
C2_LoopsKeepRunning == \A sock \in loops : proc = "serving"

(***************************************************************************)
(* C3: for every p in 0..191, parsing a buffer that begins "<p>" yields    *)
(* Facility = p div 8 and Severity = p mod 8, Facility*8 + Severity = p.   *)
(* Stated of the message in every state after the PRI stage, whatever the  *)
(* later stages do.                                                        *)
(***************************************************************************)
PriArithmeticOf(p) ==
    /\ pstate.msg.Facility = p \div 8
    /\ pstate.msg.Severity = p % 8
    /\ pstate.msg.Facility * 8 + pstate.msg.Severity = p

\* the text "<p>" of every p in 0..191
PriText == [p \in 0..191 |-> <<"<">> \o Itoa(p) \o <<">">>]

C3_PriArithmetic ==
    \A p \in 0..191 :
       (HasPrefix(pbuf, PriText[p]) /\ pstate.pc # "PRI") => PriArithmeticOf(p)

\* "<191>1a" has returned with facility 23 and severity 7
C3_Witness ==
    /\ Returned
    /\ HasPrefix(pbuf, <<"<", "1", "9", "1", ">">>)
    /\ pstate.msg.Facility = 23
    /\ pstate.msg.Severity = 7

(***************************************************************************)
(* C4: in every returned message whose PRI was parsed, Severity is in      *)
(* 0..7, Facility in 0..23 and Version in {0,1}, for every bracket content *)
(* the parser accepts.                                                     *)
(* Fails: "<999>" is accepted and gives Facility 124, "<-5>" gives -1.     *)
(***************************************************************************)
C4_FieldRanges ==
    (Returned /\ PriAccepted(pbuf)) =>
       /\ pstate.msg.Severity \in 0..7
       /\ pstate.msg.Facility \in 0..23
       /\ pstate.msg.Version \in {0, 1}

\* the part of C4 that holds: Severity and Version are always in range
SeverityVersionRanges ==
    Returned => pstate.msg.Severity \in 0..7 /\ pstate.msg.Version \in {0, 1}

(***************************************************************************)
(* C5: when PRI extraction fails (no "<" first, no ">" at index 2..4, or   *)
(* non-numeric text between them) the result has Facility 0, Severity 5,   *)
(* Version 0, Hostname = Source, empty Tag and StructuredData, and Message *)
(* equal to the whole buffer; no later stage runs.                         *)
(* Fails only on the empty buffer, which panics (C1).                      *)
(***************************************************************************)
PriFailureResult ==
    /\ pstate.pc \in {"PRI", "RETURN", "done"}
    /\ Returned =>
          /\ pstate.msg.Facility = 0
          /\ pstate.msg.Severity = 5
          /\ pstate.msg.Version = 0
          /\ pstate.msg.Hostname = pstate.msg.Source
          /\ pstate.msg.Source = psource
          /\ pstate.msg.Tag = <<>>
          /\ pstate.msg.StructuredData = <<>>
          /\ pstate.msg.Message = pbuf

C5_PriFailureDefaults == ~PriAccepted(pbuf) => PriFailureResult

\* the part of C5 that holds: every non-empty buffer
PriFailureDefaultsNonEmpty == (Len(pbuf) > 0 /\ ~PriAccepted(pbuf)) => PriFailureResult

(***************************************************************************)
(* C6: after a successful PRI, Version is 1 (structured grammar) exactly   *)
(* when the next character is "1" and the one after it is a space; in      *)
(* every other case Version stays 0 (legacy grammar).                      *)
(* Fails: "<13>1a" returns Version = 1; the code never looks at the        *)
(* character after the "1".                                                *)
(***************************************************************************)
C6_VersionDispatch ==
    (Returned /\ PriAccepted(pbuf)) =>
       (pstate.msg.Version = 1 <=> IsStructured(pbuf))

\* what the code does instead: Version is 1 exactly when "1" follows the PRI
VersionDispatchOnOneAlone ==
    (Returned /\ PriAccepted(pbuf)) =>
       (pstate.msg.Version = 1 <=> HasPrefix(AfterPri(pbuf), <<"1">>))

(***************************************************************************)
(* C7: for a structured buffer whose timestamp token is "-" or fails both  *)
(* formats, the result has Version 1, Facility and Severity of the PRI,    *)
(* the clock default as Timestamp, empty Hostname, empty Tag, empty        *)
(* StructuredData, and Message = the remainder from the token on.          *)
(* Fails: Hostname is the source address, not empty.                       *)
(***************************************************************************)
C7_NilTimestamp ==
    (Returned /\ HasTimeToken(pbuf) /\ ~TimeTokenParses(pbuf)) =>
       /\ pstate.msg.Version = 1
       /\ pstate.msg.Facility = PriValue(pbuf) \div 8
       /\ pstate.msg.Severity = PriValue(pbuf) % 8
       /\ pstate.msg.Timestamp = TimeString(Now)
       /\ pstate.msg.Hostname = <<>>
       /\ pstate.msg.Tag = <<>>
       /\ pstate.msg.StructuredData = <<>>
       /\ pstate.msg.Message = AfterVersion(pbuf)

\* the part of C7 that holds: every field but Hostname, which is the source
NilTimestampKeepsSourceAsHostname ==
    (Returned /\ HasTimeToken(pbuf) /\ ~TimeTokenParses(pbuf)) =>
       /\ pstate.msg.Version = 1
       /\ pstate.msg.Facility = PriValue(pbuf) \div 8
       /\ pstate.msg.Severity = PriValue(pbuf) % 8
       /\ pstate.msg.Timestamp = TimeString(Now)
       /\ pstate.msg.Hostname = psource
       /\ pstate.msg.Tag = <<>>
       /\ pstate.msg.StructuredData = <<>>
       /\ pstate.msg.Message = AfterVersion(pbuf)

(***************************************************************************)
(* C8: in the structured grammar, when the timestamp parses and the        *)
(* remainder splits on spaces into exactly 5 parts, Hostname is part 1     *)
(* verbatim (also "-") and Tag is parts 2, 3 and 4 joined by spaces.       *)
(* Stated of the message in every state after the field split, whatever    *)
(* the structured-data stage does.                                         *)
(***************************************************************************)
SplitsInFive(buf) == TimeTokenParses(buf) /\ Cardinality(SpacesOf(AfterTime(buf))) >= 4

HostnameAndTagOf(t) ==
    /\ pstate.msg.Hostname = SubSeq(t, 1, KthSpace(t, 1) - 1)
    /\ pstate.msg.Tag = SubSeq(t, KthSpace(t, 1) + 1, KthSpace(t, 4) - 1)

C8_HostnameAndTag ==
    (SplitsInFive(pbuf) /\ pstate.pc \notin {"PRI", "VERSION", "TIMESTAMP", "FIELDS"}) =>
       HostnameAndTagOf(AfterTime(pbuf))

\* "<13>1 2015-12-15T11:54:41Z - a - - -" and its like have returned with
\* the nil hostname kept
C8_Witness ==
    /\ Returned
    /\ SplitsInFive(pbuf)
    /\ pstate.msg.Hostname = <<"-">>
    /\ pstate.msg.Hostname # pstate.msg.Source
    /\ pstate.msg.Tag = <<"a", " ", "-", " ", "-">>

(***************************************************************************)
(* C9: in the structured grammar, when the text at the structured-data     *)
(* position begins with "[", its first "]" is at index > 1 and at least    *)
(* one character follows it, StructuredData is the text from "[" up to,    *)
(* not including, that "]", and Message is the text from two characters    *)
(* after the "]".                                                          *)
(***************************************************************************)
C9_Step ==
    /\ (pstate.pc = "SD" /\ SdElementFollowed(pstate.rest)) =>
          /\ pstate'.pc = "RETURN"
          /\ pstate'.msg.StructuredData =
                SubSeq(pstate.rest, 1, IndexRune(pstate.rest, "]"))
          /\ pstate'.rest =
                SubSeq(pstate.rest, IndexRune(pstate.rest, "]") + 3, Len(pstate.rest))
    /\ pstate.pc = "RETURN" =>
          /\ pstate'.pc = "done"
          /\ pstate'.msg.Message = pstate.rest
          /\ pstate'.msg.StructuredData = pstate.msg.StructuredData

C9_StructuredDataCapture == [][C9_Step]_vars

\* "<13>1 2015-12-15T11:54:41Z h a p m [x] a" and its like: the element is
\* captured without its "]" and the message starts after the separator
C9_Witness ==
    /\ Returned
    /\ pstate.msg.Version = 1
    /\ pstate.msg.Tag = <<"a", " ", "p", " ", "m">>
    /\ pstate.msg.StructuredData = <<"[", "x">>
    /\ pstate.msg.Message = <<"a">>
    /\ HasPrefix(AfterTime(pbuf), <<"h", " ", "a", " ", "p", " ", "m", " ", "[", "x", "]", " ", "a">>)

(***************************************************************************)
(* C10: in the structured grammar, when the text at the structured-data    *)
(* position does not begin with "[", or has no "]", or has its first "]"   *)
(* at index <= 1, StructuredData stays empty and Message is the whole text *)
(* from that position (a nil "-" stays the start of Message).              *)
(* Fails only on an empty text at that position, which panics (C1).        *)
(***************************************************************************)
C10_Step ==
    /\ (pstate.pc = "SD" /\ NoSdElement(pstate.rest)) =>
          /\ pstate'.pc = "RETURN"
          /\ pstate'.rest = pstate.rest
          /\ pstate'.msg.StructuredData = <<>>
    /\ pstate.pc = "RETURN" =>
          /\ pstate'.pc = "done"
          /\ pstate'.msg.Message = pstate.rest
          /\ pstate'.msg.StructuredData = pstate.msg.StructuredData

C10_NoStructuredData == [][C10_Step]_vars

\* the part of C10 that holds: every non-empty text at that position
C10_StepNonEmpty == Len(pstate.rest) > 0 => C10_Step

NoStructuredDataNonEmpty == [][C10_StepNonEmpty]_vars

(***************************************************************************)
(* C11: in the legacy grammar, when the first 15 characters after the PRI  *)
(* parse as a legacy timestamp the parser advances 16 characters and       *)
(* splits the remainder on spaces into at most 3 parts: with 3 parts       *)
(* Hostname = part 1, Tag = part 2, Message = part 3; with fewer Hostname  *)
(* stays the source, Tag stays empty and Message is the unsplit remainder. *)
(* When the timestamp does not parse, Timestamp keeps the clock default    *)
(* and Message is everything after the PRI.                                *)
(* Fails: "<13>a" has no timestamp and panics at rest[:15] of line 95; a   *)
(* buffer that ends with the timestamp panics at rest[16:] of line 97.     *)
(***************************************************************************)
\* a PRI followed by text that does not open with the version marker "1"
IsLegacy(buf) ==
    /\ PriAccepted(buf)
    /\ Len(AfterPri(buf)) > 0
    /\ AfterPri(buf)[1] # "1"

LegacyStampParses(buf) ==
    /\ Len(AfterPri(buf)) >= 15
    /\ TimeParseStamp(SubSeq(AfterPri(buf), 1, 15)).ok

\* the text 16 characters after the PRI
AfterStamp(buf) == SubSeq(AfterPri(buf), 17, Len(AfterPri(buf)))

LegacyResult ==
    IF LegacyStampParses(pbuf)
    THEN LET t == AfterStamp(pbuf) IN
         /\ pstate.msg.Timestamp = TimeString(TimeParseStamp(SubSeq(AfterPri(pbuf), 1, 15)))
         /\ IF Cardinality(SpacesOf(t)) >= 2
            THEN /\ pstate.msg.Hostname = SubSeq(t, 1, KthSpace(t, 1) - 1)
                 /\ pstate.msg.Tag = SubSeq(t, KthSpace(t, 1) + 1, KthSpace(t, 2) - 1)
                 /\ pstate.msg.Message = SubSeq(t, KthSpace(t, 2) + 1, Len(t))
            ELSE /\ pstate.msg.Hostname = psource
                 /\ pstate.msg.Tag = <<>>
                 /\ pstate.msg.Message = t
    ELSE /\ pstate.msg.Timestamp = TimeString(Now)
         /\ pstate.msg.Message = AfterPri(pbuf)

C11_LegacyGrammar ==
    IsLegacy(pbuf) => (~Panicked /\ (Returned => LegacyResult))

\* the part of C11 that holds: every message the legacy grammar returns
LegacyGrammarWhenReturned == (IsLegacy(pbuf) /\ Returned) => LegacyResult

\* "<13>Dec 15 11:55:02 h t: a" and its like have returned
LegacyGrammarReturns ==
    /\ Returned
    /\ IsLegacy(pbuf)
    /\ LegacyStampParses(pbuf)
    /\ pstate.msg.Hostname = <<"h">>
    /\ pstate.msg.Tag = <<"t", ":">>
    /\ pstate.msg.Message = <<"a">>

(***************************************************************************)
(* C12: for every non-empty buffer the Message of the returned record is   *)
(* non-empty, also when every field is consumed (a legacy buffer ending in *)
(* "host tag: ", a structured-data element followed by one space only).    *)
(* Fails: "<13>Dec 15 11:55:02 h t: " returns an empty Message; so do      *)
(* "<13>1 2015-12-15T11:54:41Z h a p m [x] " and "<13>1a".                 *)
(***************************************************************************)
C12_MessageNonEmpty == (Returned /\ Len(pbuf) > 0) => Len(pstate.msg.Message) > 0

\* the claim's own two examples are returned with an empty Message
LegacyAllConsumed ==
    /\ Returned
    /\ pbuf = Pri13 \o StampGood \o <<" ", "h", " ", "t", ":", " ">>
    /\ pstate.msg.Tag = <<"t", ":">>
    /\ pstate.msg.Message = <<>>

ElementAllConsumed ==
    /\ Returned
    /\ pbuf = Pri13 \o <<"1", " ">> \o TimeSecond
                 \o <<" ", "h", " ", "a", " ", "p", " ", "m", " ", "[", "x", "]", " ">>
    /\ pstate.msg.StructuredData = <<"[", "x">>
    /\ pstate.msg.Message = <<>>

(***************************************************************************)
(* C13: every accepted stream connection gets exactly one bounded read (at *)
(* most PACKETSIZE octets) and is then closed, whether the read returned   *)
(* data or an error: never a second read, and no accepted connection is    *)
(* open once its task has ended.  A connection is open exactly while its   *)
(* task is waiting for the read, parsing or waiting for the Sink.          *)
(***************************************************************************)
AcceptedConnections ==
    {i \in 1..Len(units) : units[i].kind = "stream" /\ units[i].st # "failed"}

TaskEnded(u) == u.st \in {"done", "panicked"}

C13_OneReadThenClosed ==
    \A i \in AcceptedConnections :
       /\ units[i].reads <= 1
       /\ units[i].reads = 0 <=> units[i].st = "read"
       /\ Len(units[i].buf) <= PACKETSIZE
       /\ TaskEnded(units[i]) => (units[i].reads = 1 /\ ~units[i].open)
       /\ units[i].open <=> units[i].st \in {"read", "ingest", "send"}

\* one connection was closed after a failed read, another after a read that
\* filled the buffer and was delivered
C13_Witness ==
    \E i, j \in AcceptedConnections :
       /\ units[i].st = "done" /\ units[i].reads = 1 /\ ~units[i].open
       /\ units[i].logged = 1 /\ units[i].parses = 0
       /\ units[j].st = "done" /\ units[j].reads = 1 /\ ~units[j].open
       /\ Len(units[j].buf) = PACKETSIZE /\ units[j].delivered = 1

(***************************************************************************)
(* C14: a failed accept, a failed stream read or a failed datagram receive *)
(* abandons only that unit: the step that fails logs once, the unit is     *)
(* never parsed nor delivered (it is never touched again), every other     *)
(* unit is left as it is, and the process and the loop of that socket keep *)
(* running.                                                                *)
(***************************************************************************)
\* unit i fails in this step: a receive or accept error makes a new failed
\* unit, a read error ends a task that was waiting for its read
FailsNow(i) ==
    \/ i > Len(units) /\ units'[i].st = "failed"
    \/ i <= Len(units) /\ units[i].st = "read" /\ units'[i].st = "done"

Abandoned(u) ==
    /\ u.logged = 1
    /\ u.parses = 0
    /\ u.sends = 0
    /\ u.delivered = 0
    /\ ~u.open

C14_Step ==
    /\ \A i \in 1..Len(units') :
          FailsNow(i) =>
             /\ Abandoned(units'[i])
             /\ \A j \in 1..Len(units) : j # i => units'[j] = units[j]
             /\ proc' = proc
             /\ loops' = loops
             /\ units'[i].sock \in loops'
    /\ \A i \in 1..Len(units) :
          (units[i].st = "failed" \/ (units[i].st = "done" /\ Abandoned(units[i])))
             => units'[i] = units[i]

C14_FailureAbandonsOneUnit == [][C14_Step]_vars

\* after a failed receive or accept and a failed read, a later unit of the
\* socket whose receive or accept failed has been delivered
C14_Witness ==
    \E i, j, k \in 1..Len(units) :
       /\ i < j
       /\ units[i].st = "failed" /\ Abandoned(units[i])
       /\ units[j].sock = units[i].sock /\ units[j].delivered = 1
       /\ units[k].kind = "stream" /\ units[k].reads = 1 /\ Abandoned(units[k])
       /\ proc = "serving"

(***************************************************************************)
(* C15: each unit whose read succeeds is parsed once and handed to the     *)
(* Sink exactly once: never more than one parse or one Sink call, and one  *)
(* of each when its task has ended; a Sink failure is logged, not retried, *)
(* and ends the task only.                                                 *)
(* Fails: a datagram of no octets is read, panics in ParseSyslog (C1) and  *)
(* never reaches the Sink; the process ends with it (C2).                  *)
(***************************************************************************)
\* the receive or read of the unit returned octets (a stream read that
\* succeeds returns at least one)
ReadSucceeded(u) ==
    /\ u.st # "failed"
    /\ u.reads = 1
    /\ u.kind = "stream" => Len(u.buf) > 0

ParsedAndSentOnce(u) ==
    /\ u.parses = 1
    /\ u.sends = 1
    /\ u.delivered + u.logged = 1

C15_ParsedAndSentOnce ==
    \A i \in 1..Len(units) :
       ReadSucceeded(units[i]) =>
          /\ units[i].parses <= 1
          /\ units[i].sends <= units[i].parses
          /\ TaskEnded(units[i]) => ParsedAndSentOnce(units[i])

\* the part of C15 that holds: the units whose parse returned
SentOnceWhenParsed ==
    \A i \in 1..Len(units) :
       ReadSucceeded(units[i]) =>
          /\ units[i].parses <= 1
          /\ units[i].sends <= units[i].parses
          /\ units[i].st = "done" => ParsedAndSentOnce(units[i])

\* and a Sink failure: logged once, the task over for good, the process and
\* the loops as they were
SinkFailureStep ==
    \A i \in 1..Len(units) :
       /\ (units[i].st = "send" /\ units'[i].logged = units[i].logged + 1) =>
             /\ units'[i].st = "done"
             /\ units'[i].logged = 1
             /\ units'[i].sends = 1
             /\ units'[i].delivered = 0
             /\ proc' = proc
             /\ loops' = loops
       /\ units[i].st = "done" => units'[i] = units[i]

SinkFailureEndsTaskOnly == [][SinkFailureStep]_vars

\* a Sink failure was logged and a later unit was delivered
SinkFailureThenDelivery ==
    \E i, j \in 1..Len(units) :
       /\ i < j
       /\ units[i].st = "done" /\ units[i].sends = 1 /\ units[i].logged = 1
       /\ units[j].st = "done" /\ units[j].delivered = 1
       /\ proc = "serving"

(***************************************************************************)
(* C16: when the activation layer supplies no datagram socket and no       *)
(* stream listener, startup ends in a fatal error before any receive or    *)
(* accept loop is started: the process is never serving, no loop exists    *)
(* and no unit is ever read or delivered.                                  *)
(***************************************************************************)
NoSockets == packetConns = {} /\ listeners = {}

C16_NoSocketsIsFatal ==
    NoSockets =>
       /\ proc \in {"starting", "fatal"}
       /\ loops = {}
       /\ wg = 0
       /\ units = <<>>

\* startup has ended in the fatal error
C16_Witness == NoSockets /\ proc = "fatal" /\ loops = {} /\ units = <<>>

(***************************************************************************)
(* C17: once at least one socket of either kind is supplied, main never    *)
(* returns on its own, whatever the concrete type of the sockets (also     *)
(* sockets that are neither a UDP connection nor a TCP listener).          *)
(* Fails: with a unixgram socket only, no loop is started, wg.Wait()       *)
(* returns at once and main returns.                                       *)
(***************************************************************************)
C17_MainNeverReturns == ~NoSockets => proc # "exited"

\* the part of C17 that holds: main does not return once a loop was started
MainWaitsForLoops == loops # {} => (proc # "exited" /\ wg = Cardinality(loops))

\* main has returned although a socket was supplied
MainReturnedWithSockets == ~NoSockets /\ loops = {} /\ proc = "exited"

(***************************************************************************)
(* C18: no receive or accept loop ever waits for a per-unit task: while    *)
(* the process serves, every datagram loop can receive the next datagram   *)
(* and every accept loop can accept the next connection, whatever the      *)
(* units in flight are doing (a Sink call that has not returned, a peer    *)
(* that has sent nothing).  "Can" is up to the MaxUnits units of a run.    *)
(***************************************************************************)
LastSock == units'[Len(units')].sock

C18_LoopsNeverWait ==
    (proc = "serving" /\ Len(units) < MaxUnits) =>
       /\ \A s \in UdpLoops : ENABLED (ReceiveDatagram /\ LastSock = s)
       /\ \A s \in TcpLoops : ENABLED (Accept /\ LastSock = s)

\* the Sink call of a datagram has not returned and the peer of a connection
\* has sent nothing; both loops can take their next unit
C18_Witness ==
    \E i, j \in 1..Len(units) :
       /\ units[i].kind = "datagram" /\ units[i].st = "send"
       /\ units[j].kind = "stream" /\ units[j].st = "read"
       /\ ENABLED (ReceiveDatagram /\ LastSock = units[i].sock)
       /\ ENABLED (Accept /\ LastSock = units[j].sock)

\* and they do: of two datagrams of one socket both Sink calls are pending,
\* of two connections of one listener both peers are silent
TwoSinkCallsPending ==
    \E i, j \in 1..Len(units) :
       /\ i < j /\ units[i].sock = units[j].sock
       /\ units[i].kind = "datagram" /\ units[i].st = "send" /\ units[j].st = "send"

TwoSilentPeers ==
    \E i, j \in 1..Len(units) :
       /\ i < j /\ units[i].sock = units[j].sock
       /\ units[i].kind = "stream" /\ units[i].st = "read" /\ units[j].st = "read"

(***************************************************************************)
(* C19: in the structured grammar, when the timestamp parses but the       *)
(* remainder does not split on spaces into exactly 5 parts, parsing stops: *)
(* StructuredData stays empty, Hostname and Tag keep their defaults and    *)
(* Message is the whole unsplit remainder, also when it begins with "[".   *)
(* Fails: "<13>1 2015-12-15T11:54:41Z [x] a" returns StructuredData "[x"   *)
(* and Message "a"; the structured-data stage runs after a failed split.   *)
(***************************************************************************)
SplitFails(buf) == TimeTokenParses(buf) /\ Cardinality(SpacesOf(AfterTime(buf))) < 4

C19_SplitFailureStops ==
    (Returned /\ SplitFails(pbuf)) =>
       /\ pstate.msg.StructuredData = <<>>
       /\ pstate.msg.Hostname = psource
       /\ pstate.msg.Tag = <<>>
       /\ pstate.msg.Message = AfterTime(pbuf)

\* the part of C19 that holds: Hostname and Tag keep their defaults, and a
\* remainder without a usable element is the Message
SplitFailureKeepsDefaults ==
    (Returned /\ SplitFails(pbuf)) =>
       /\ pstate.msg.Hostname = psource
       /\ pstate.msg.Tag = <<>>
       /\ NoSdElement(AfterTime(pbuf)) =>
             /\ pstate.msg.StructuredData = <<>>
             /\ pstate.msg.Message = AfterTime(pbuf)

\* the element of an unsplit remainder was taken
SplitFailureThenElement ==
    /\ Returned
    /\ SplitFails(pbuf)
    /\ AfterTime(pbuf) = <<"[", "x", "]", " ", "a">>
    /\ pstate.msg.StructuredData = <<"[", "x">>
    /\ pstate.msg.Message = <<"a">>

(***************************************************************************)
(* C20: parsing only consumes from the front.  In every step of the parser *)
(* the remainder before and after is a suffix of the buffer and the new    *)
(* remainder a suffix of the old; the Message of a returned record is that *)
(* remainder; a stage that fails changes neither the remainder nor any     *)
(* field; and no stage changes a field that an earlier stage sets          *)
(* (Facility, Severity, Version, Timestamp, Hostname, Tag, Source).        *)
(***************************************************************************)
IsSuffix(t, buf) ==
    /\ Len(t) <= Len(buf)
    /\ SubSeq(buf, Len(buf) - Len(t) + 1, Len(buf)) = t

\* the stage at which s stands does not find what it looks for
StageFails(s) ==
    CASE s.pc = "PRI" -> ~PriAccepted(s.rest)
      [] s.pc = "TIMESTAMP" ->
            \/ IndexRune(s.rest, " ") < 0
            \/ ~ParseStructuredTime(SubSeq(s.rest, 1, IndexRune(s.rest, " "))).ok
      [] s.pc = "FIELDS" -> Cardinality(SpacesOf(s.rest)) < 4
      [] s.pc = "SD" -> NoSdElement(s.rest)
      [] s.pc = "STAMP" -> Len(s.rest) < 15 \/ ~TimeParseStamp(SubSeq(s.rest, 1, 15)).ok
      [] s.pc = "HOSTTAG" -> Cardinality(SpacesOf(s.rest)) < 2
      [] OTHER -> FALSE

\* the fields a stage may set
FieldsKept(s, t) ==
    /\ t.msg.Source = s.msg.Source
    /\ s.pc # "PRI" =>
          (t.msg.Facility = s.msg.Facility /\ t.msg.Severity = s.msg.Severity)
    /\ s.pc # "VERSION" => t.msg.Version = s.msg.Version
    /\ s.pc \notin {"TIMESTAMP", "STAMP"} => t.msg.Timestamp = s.msg.Timestamp
    /\ s.pc \notin {"FIELDS", "HOSTTAG"} =>
          (t.msg.Hostname = s.msg.Hostname /\ t.msg.Tag = s.msg.Tag)
    /\ s.pc # "SD" => t.msg.StructuredData = s.msg.StructuredData
    /\ s.pc # "RETURN" => t.msg.Message = s.msg.Message

C20_Step ==
    /\ IsSuffix(pstate.rest, pbuf)
    /\ IsSuffix(pstate'.rest, pstate.rest)
    /\ FieldsKept(pstate, pstate')
    /\ StageFails(pstate) => (pstate'.rest = pstate.rest /\ pstate'.msg = pstate.msg)
    /\ pstate'.pc = "done" =>
          /\ pstate'.msg.Message = pstate.rest
          /\ IsSuffix(pstate'.msg.Message, pbuf)

C20_ConsumesFromFront == [][C20_Step]_vars

\* "<13>1 2015-12-15T11:54:41Z h " and its like have returned: the field
\* split failed after three stages had set their fields
C20_Witness ==
    /\ Returned
    /\ SplitFails(pbuf)
    /\ pstate.msg.Facility = 1
    /\ pstate.msg.Severity = 5
    /\ pstate.msg.Version = 1
    /\ pstate.msg.Timestamp = TimeString(ParseStructuredTime(TimeToken(pbuf)))
    /\ pstate.msg.Timestamp # TimeString(Now)
    /\ pstate.msg.Message = AfterTime(pbuf)
    /\ Len(pstate.msg.Message) > 0
    /\ IsSuffix(pstate.msg.Message, pbuf)

====
